---- MODULE Spec2Model ----
(***************************************************************************)
(* Model of src/src/AvifNative/AV1Decoder.cpp (pdn-avif): the two entry    *)
(* points DecodeColorImage and DecodeAlphaImage and the helper             *)
(* DecodeAV1Image.  The libaom decoder and the pixel converters are        *)
(* external: every result they can give is a nondeterministic choice.      *)
(***************************************************************************)
EXTENDS Integers, Sequences, FiniteSets, TLC

\* ---------------------------------------------------------------- bounds
\* Number of calls (stack frames) the model tracks.
NumCalls == 2
\* Decoded and expected widths/heights range over 1..MaxDim (0 = unconstrained).
MaxDim == 2
\* compressed sizes range over 0..MaxSize.
MaxSize == 1

Calls == 1..NumCalls

\* ------------------------------------------------------------ vocabulary
\* DecoderStatus values the file uses.
DecoderStatus ==
  {"Ok", "NullParameter", "OutOfMemory", "DecodeFailed",
   "ColorSizeMismatch", "AlphaSizeMismatch"}

\* aom_codec_err_t values libaom can return.
AomCodecErr ==
  {"AOM_CODEC_OK", "AOM_CODEC_ERROR", "AOM_CODEC_MEM_ERROR",
   "AOM_CODEC_ABI_MISMATCH", "AOM_CODEC_INCAPABLE",
   "AOM_CODEC_UNSUP_BITSTREAM", "AOM_CODEC_UNSUP_FEATURE",
   "AOM_CODEC_CORRUPT_FRAME", "AOM_CODEC_INVALID_PARAM"}

Kinds == {"Color", "Alpha"}

\* The arguments of one call.  decodeInfoNull says the DecodeInfo pointer is
\* null; the expected sizes are the fields it points to otherwise.
ArgSpace ==
  { a \in [kind : Kinds, compressedNull : BOOLEAN, compressedSize : 0..MaxSize,
           outputNull : BOOLEAN, decodeInfoNull : BOOLEAN,
           expectedWidth : 0..MaxDim, expectedHeight : 0..MaxDim] :
      a.decodeInfoNull => (a.expectedWidth = 0 /\ a.expectedHeight = 0) }

NoArgs ==
  [kind |-> "Color", compressedNull |-> TRUE, compressedSize |-> 0,
   outputNull |-> TRUE, decodeInfoNull |-> TRUE,
   expectedWidth |-> 0, expectedHeight |-> 0]

\* aom_image_t* aomImage = nullptr
NullImage == [isNull |-> TRUE, d_w |-> 0, d_h |-> 0]

Frames == { [isNull |-> FALSE, d_w |-> w, d_h |-> h] : w \in 1..MaxDim, h \in 1..MaxDim }

\* aom_codec_ctx_t codec, a local of the call: not initialised yet.
FreshCodec == [state |-> "uninit", destroys |-> 0]

VARIABLES
  phase,      \* per call: "Idle", "Running", "Returned", "Crashed"
  pc,         \* per call: index of the next statement in the body
  args,       \* per call: the arguments
  codec,      \* per call: the local aom_codec_ctx_t
  aomImage,   \* per call: the local aom_image_t*
  status,     \* per call: the DecoderStatus so far ("None" before any)
  bitmap,     \* per call: the caller's BitmapData, "untouched" or "written"
  log,        \* per call: the external operations performed, in order
  submitted   \* per call: the sizes handed to aom_codec_decode, in order

vars == <<phase, pc, args, codec, aomImage, status, bitmap, log, submitted>>

\* ------------------------------------------------------- pure functions
\* Variant: the output pointer is not tested.
InvalidColorArgs_NoOutputCheck(a) ==
  a.compressedNull \/ a.compressedSize = 0

\* Line 66: !compressedColorImage || !compressedColorImageSize || !decodedImage
InvalidColorArgs(a) ==
  a.compressedNull \/ a.compressedSize = 0 \/ a.outputNull

\* Variant: the alpha path does not test the size.
InvalidAlphaArgs_NoSizeCheck(a) ==
  a.compressedNull \/ a.outputNull

\* Line 121: !compressedAlphaImage || !compressedAlphaImageSize || !outputImage
InvalidAlphaArgs(a) ==
  a.compressedNull \/ a.compressedSize = 0 \/ a.outputNull

InvalidArgs(a) ==
  IF a.kind = "Color" THEN InvalidColorArgs(a) ELSE InvalidAlphaArgs(a)

\* Variant: only the allocation failure is treated as a failed init.
ColorInitFailed_OnlyMemError(error) == error = "AOM_CODEC_MEM_ERROR"

\* Line 76: error != AOM_CODEC_OK.
ColorInitFailed(error) == error # "AOM_CODEC_OK"

\* Line 131: error != AOM_CODEC_OK.
AlphaInitFailed(error) == error # "AOM_CODEC_OK"

InitFailed(kind, error) ==
  IF kind = "Color" THEN ColorInitFailed(error) ELSE AlphaInitFailed(error)

\* Lines 78-85: classification of a failed aom_codec_dec_init, colour path.
ColorInitStatus(error) ==
  IF error = "AOM_CODEC_MEM_ERROR" THEN "OutOfMemory" ELSE "DecodeFailed"

\* Lines 133-140: the same, alpha path.
AlphaInitStatus(error) ==
  IF error = "AOM_CODEC_MEM_ERROR" THEN "OutOfMemory" ELSE "DecodeFailed"

InitStatus(kind, error) ==
  IF kind = "Color" THEN ColorInitStatus(error) ELSE AlphaInitStatus(error)

\* Variant: the allocation failure is not told apart.
DecodeErrorStatus_AlwaysDecodeFailed(error) == "DecodeFailed"

\* Lines 34-41: classification of a failed aom_codec_decode.
DecodeErrorStatus(error) ==
  IF error = "AOM_CODEC_MEM_ERROR" THEN "OutOfMemory" ELSE "DecodeFailed"

\* Variant: the returned frame pointer is not tested.
FrameStatus_AlwaysOk(img) == "Ok"

\* Lines 48-55: the helper's status after aom_codec_get_frame.
FrameStatus(img) ==
  IF img.isNull THEN "DecodeFailed" ELSE "Ok"

\* Variant: the condition read as a && (b || c) && d.
ColorSizeCheckFails_Precedence(ew, eh, img) ==
  ew # 0 /\ (img.d_w # ew \/ eh # 0) /\ img.d_h # eh

\* Variant: only the width is compared.
ColorSizeCheckFails_WidthOnly(ew, eh, img) ==
  ew # 0 /\ img.d_w # ew

\* Lines 99-100: a && b || c && d parses as (a && b) || (c && d).
ColorSizeCheckFails(ew, eh, img) ==
  (ew # 0 /\ img.d_w # ew) \/ (eh # 0 /\ img.d_h # eh)

\* Variant: an expectation of 0 is compared like any other value.
AlphaSizeCheckFails_ZeroCompared(ew, eh, img) ==
  img.d_w # ew \/ img.d_h # eh

\* Lines 154-155.
AlphaSizeCheckFails(ew, eh, img) ==
  (ew # 0 /\ img.d_w # ew) \/ (eh # 0 /\ img.d_h # eh)

SizeCheckFails(kind, ew, eh, img) ==
  IF kind = "Color" THEN ColorSizeCheckFails(ew, eh, img)
  ELSE AlphaSizeCheckFails(ew, eh, img)

\* Lines 102 and 157: the status of a failed size check.
ColorMismatchStatus == "ColorSizeMismatch"

AlphaMismatchStatus == "AlphaSizeMismatch"

MismatchStatus(kind) ==
  IF kind = "Color" THEN ColorMismatchStatus ELSE AlphaMismatchStatus

\* The frame fields the condition reads, in order, with C's short circuit:
\* d_w is read only when expectedWidth != 0, d_h only when the width half is
\* false and expectedHeight != 0.
DimReads(ew, eh, img) ==
  (IF ew # 0 THEN <<"read_d_w">> ELSE <<>>) \o
  (IF ~(ew # 0 /\ img.d_w # ew) /\ eh # 0 THEN <<"read_d_h">> ELSE <<>>)

\* ------------------------------------------------------- control flow
\* Variant: the decoder is not destroyed.
ColorBody_NoDestroy ==
  <<"Validate", "Init", "Decode", "GetFrame", "SizeCheck", "Convert", "Return">>

\* Variant: the buffer is submitted a second time.
ColorBody_DecodeTwice ==
  <<"Validate", "Init", "Decode", "Decode", "GetFrame", "SizeCheck", "Convert",
    "Destroy", "Return">>

\* The statements of DecodeColorImage in program order, DecodeAV1Image
\* inlined ("Decode", "GetFrame").  "SizeCheck" is the if of line 96 with the
\* condition of lines 99-100, "Convert" the else branch nested in it.
ColorBody ==
  <<"Validate", "Init", "Decode", "GetFrame", "SizeCheck", "Convert",
    "Destroy", "Return">>

\* Variant: the decoder is destroyed twice.
AlphaBody_DestroyTwice ==
  <<"Validate", "Init", "Decode", "GetFrame", "SizeCheck", "Convert",
    "Destroy", "Destroy", "Return">>

\* Variant: the decoder is destroyed before the frame is used.
AlphaBody_DestroyBeforeCheck ==
  <<"Validate", "Init", "Decode", "GetFrame", "Destroy", "SizeCheck",
    "Convert", "Return">>

\* The statements of DecodeAlphaImage.
AlphaBody ==
  <<"Validate", "Init", "Decode", "GetFrame", "SizeCheck", "Convert",
    "Destroy", "Return">>

Body(kind) == IF kind = "Color" THEN ColorBody ELSE AlphaBody

IndexOf(body, label) == CHOOSE i \in 1..Len(body) : body[i] = label

\* The statement after the helper's return.
AfterHelper(body) == IndexOf(body, "GetFrame") + 1

\* The statement after the if block of lines 96-108.
AfterIfBlock(body) == IndexOf(body, "Convert") + 1

At(c, label) ==
  /\ phase[c] = "Running"
  /\ pc[c] \in 1..Len(Body(args[c].kind))
  /\ Body(args[c].kind)[pc[c]] = label

ImageRes(img) == IF img.isNull THEN "nullptr" ELSE "frame"

\* Variant: the codec is one static object that every call uses.
CodecOf_Static(c) == 1

\* Lines 71 / 126: the codec a call works on is its own local variable;
\* codecs are named by the call that declares them.
CodecOf(c) == c

\* One operation of call c on a codec: its name, the codec it is applied to,
\* its result, and whether that codec was initialised and not yet destroyed
\* when the operation ran.  img is "none".
Entry(op, c, res) ==
  [op |-> op, h |-> CodecOf(c), res |-> res,
   live |-> codec[CodecOf(c)].state = "live", img |-> "none"]

\* One access of call c to the image its aomImage points to, which the codec
\* of the call owns: img says whether the pointer was null.
FrameEntry(op, c, res) ==
  [op |-> op, h |-> CodecOf(c), res |-> res,
   live |-> codec[CodecOf(c)].state = "live", img |-> ImageRes(aomImage[c])]

\* Lines 92-93: DecodeColorImage hands compressedColorImageSize to the helper.
ColorDecodeSize(a) == a.compressedSize

\* Lines 147-148: DecodeAlphaImage hands compressedAlphaImageSize to the helper.
AlphaDecodeSize(a) == a.compressedSize

\* Line 30: the helper hands the size it was given to aom_codec_decode.
DecodeSize(a) ==
  IF a.kind = "Color" THEN ColorDecodeSize(a) ELSE AlphaDecodeSize(a)

\* Lines 106 and 161: the converter called on each path.
ColorConverter == "ConvertColorImage"

AlphaConverter == "ConvertAlphaImage"

Converter(kind) == IF kind = "Color" THEN ColorConverter ELSE AlphaConverter

\* Line 106: status = ConvertColorImage(...).
ColorStatusAfterConvert(old, converted) == converted

\* Variant: the converter's result is dropped.
AlphaStatusAfterConvert_KeepsOld(old, converted) == old

\* Line 161: status = ConvertAlphaImage(...).
AlphaStatusAfterConvert(old, converted) == converted

StatusAfterConvert(kind, old, converted) ==
  IF kind = "Color" THEN ColorStatusAfterConvert(old, converted)
  ELSE AlphaStatusAfterConvert(old, converted)

\* What a converter may do: return any DecoderStatus; it has written the
\* caller's bitmap when it returns Ok and may have written it otherwise.
ConvertOutcomes ==
  { o \in [st : DecoderStatus, wrote : BOOLEAN] : o.st = "Ok" => o.wrote }

\* ---------------------------------------------------------------- state
Init ==
  /\ phase = [c \in Calls |-> "Idle"]
  /\ pc = [c \in Calls |-> 0]
  /\ args = [c \in Calls |-> NoArgs]
  /\ codec = [c \in Calls |-> FreshCodec]
  /\ aomImage = [c \in Calls |-> NullImage]
  /\ status = [c \in Calls |-> "None"]
  /\ bitmap = [c \in Calls |-> "untouched"]
  /\ log = [c \in Calls |-> <<>>]
  /\ submitted = [c \in Calls |-> <<>>]

\* A caller enters DecodeColorImage or DecodeAlphaImage with arguments a.
\* Calls are made one at a time.
Call(c) ==
  /\ phase[c] = "Idle"
  /\ \A d \in Calls \ {c} : phase[d] = "Idle"
  /\ \E a \in ArgSpace :
        /\ args' = [args EXCEPT ![c] = a]
        /\ phase' = [phase EXCEPT ![c] = "Running"]
        /\ pc' = [pc EXCEPT ![c] = 1]
  /\ UNCHANGED <<codec, aomImage, status, bitmap, log, submitted>>

\* Lines 66-69 / 121-124.
Validate(c) ==
  /\ At(c, "Validate")
  /\ IF InvalidArgs(args[c])
     THEN /\ status' = [status EXCEPT ![c] = "NullParameter"]
          /\ phase' = [phase EXCEPT ![c] = "Returned"]
          /\ UNCHANGED pc
     ELSE /\ pc' = [pc EXCEPT ![c] = @ + 1]
          /\ UNCHANGED <<status, phase>>
  /\ UNCHANGED <<args, codec, aomImage, bitmap, log, submitted>>

\* Lines 71-86 / 126-141: aom_codec_dec_init and the early return.
InitCodec(c) ==
  /\ At(c, "Init")
  /\ \E error \in AomCodecErr :
        /\ log' = [log EXCEPT ![c] = Append(@, Entry("aom_codec_dec_init", c, error))]
        /\ codec' = [codec EXCEPT ![CodecOf(c)].state =
                       IF error = "AOM_CODEC_OK" THEN "live" ELSE @]
        /\ IF InitFailed(args[c].kind, error)
           THEN /\ status' = [status EXCEPT ![c] = InitStatus(args[c].kind, error)]
                /\ phase' = [phase EXCEPT ![c] = "Returned"]
                /\ UNCHANGED pc
           ELSE /\ pc' = [pc EXCEPT ![c] = @ + 1]
                /\ UNCHANGED <<status, phase>>
  /\ UNCHANGED <<args, aomImage, bitmap, submitted>>

\* Lines 30-42: aom_codec_decode on the whole buffer.
Decode(c) ==
  /\ At(c, "Decode")
  /\ \E error \in AomCodecErr :
        /\ log' = [log EXCEPT ![c] = Append(@, Entry("aom_codec_decode", c, error))]
        /\ submitted' = [submitted EXCEPT ![c] = Append(@, DecodeSize(args[c]))]
        /\ IF error # "AOM_CODEC_OK"
           THEN /\ aomImage' = [aomImage EXCEPT ![c] = NullImage]
                /\ status' = [status EXCEPT ![c] = DecodeErrorStatus(error)]
                /\ pc' = [pc EXCEPT ![c] = AfterHelper(Body(args[c].kind))]
           ELSE /\ pc' = [pc EXCEPT ![c] = @ + 1]
                /\ UNCHANGED <<aomImage, status>>
  /\ UNCHANGED <<phase, args, codec, bitmap>>

\* Lines 44-55: aom_codec_get_frame, once.
GetFrame(c) ==
  /\ At(c, "GetFrame")
  /\ \E img \in Frames \cup {NullImage} :
        /\ log' = [log EXCEPT ![c] = Append(@, Entry("aom_codec_get_frame", c, ImageRes(img)))]
        /\ aomImage' = [aomImage EXCEPT ![c] = img]
        /\ status' = [status EXCEPT ![c] = FrameStatus(img)]
  /\ pc' = [pc EXCEPT ![c] = @ + 1]
  /\ UNCHANGED <<phase, args, codec, bitmap, submitted>>

\* The entries of the frame reads of one evaluation of lines 99-100.
ReadEntries(c, ew, eh) ==
  LET rd == DimReads(ew, eh, aomImage[c])
  IN  [i \in 1..Len(rd) |-> FrameEntry(rd[i], c, "read")]

\* Lines 96-103 / 151-158 with decodeInfo non-null.
SizeCheck(c) ==
  /\ At(c, "SizeCheck")
  /\ ~(status[c] = "Ok" /\ args[c].decodeInfoNull)
  /\ IF status[c] # "Ok"
     THEN /\ pc' = [pc EXCEPT ![c] = AfterIfBlock(Body(args[c].kind))]
          /\ UNCHANGED <<status, log>>
     ELSE /\ log' = [log EXCEPT ![c] =
                       @ \o ReadEntries(c, args[c].expectedWidth, args[c].expectedHeight)]
          /\ IF SizeCheckFails(args[c].kind, args[c].expectedWidth,
                               args[c].expectedHeight, aomImage[c])
             THEN /\ status' = [status EXCEPT ![c] = MismatchStatus(args[c].kind)]
                  /\ pc' = [pc EXCEPT ![c] = AfterIfBlock(Body(args[c].kind))]
             ELSE /\ pc' = [pc EXCEPT ![c] = @ + 1]
                  /\ UNCHANGED status
  /\ UNCHANGED <<phase, args, codec, aomImage, bitmap, submitted>>

\* Lines 99 / 154 with decodeInfo null: decodeInfo->expectedWidth reads
\* through a null pointer, which is undefined.  The call either faults or
\* goes on with whatever values the read produced.
SizeCheckNullInfo(c) ==
  /\ At(c, "SizeCheck")
  /\ status[c] = "Ok" /\ args[c].decodeInfoNull
  /\ \/ /\ phase' = [phase EXCEPT ![c] = "Crashed"]
        /\ log' = [log EXCEPT ![c] = Append(@, Entry("null_deref", c, "fault"))]
        /\ UNCHANGED <<pc, status>>
     \/ \E ew \in 0..MaxDim, eh \in 0..MaxDim :
          /\ log' = [log EXCEPT ![c] =
                       Append(@, Entry("null_deref", c, "garbage")) \o ReadEntries(c, ew, eh)]
          /\ IF SizeCheckFails(args[c].kind, ew, eh, aomImage[c])
             THEN /\ status' = [status EXCEPT ![c] = MismatchStatus(args[c].kind)]
                  /\ pc' = [pc EXCEPT ![c] = AfterIfBlock(Body(args[c].kind))]
             ELSE /\ pc' = [pc EXCEPT ![c] = @ + 1]
                  /\ UNCHANGED status
          /\ UNCHANGED phase
  /\ UNCHANGED <<args, codec, aomImage, bitmap, submitted>>

\* Lines 106 / 161: the converter reads the frame and writes the bitmap.
Convert(c) ==
  /\ At(c, "Convert")
  /\ \E o \in ConvertOutcomes :
        /\ log' = [log EXCEPT ![c] =
                     Append(@, FrameEntry(Converter(args[c].kind), c, o.st))]
        /\ status' = [status EXCEPT ![c] = StatusAfterConvert(args[c].kind, @, o.st)]
        /\ bitmap' = [bitmap EXCEPT ![c] = IF o.wrote THEN "written" ELSE @]
  /\ pc' = [pc EXCEPT ![c] = @ + 1]
  /\ UNCHANGED <<phase, args, codec, aomImage, submitted>>

\* Lines 110 / 165: aom_codec_destroy(&codec).
Destroy(c) ==
  /\ At(c, "Destroy")
  /\ log' = [log EXCEPT ![c] = Append(@, Entry("aom_codec_destroy", c, "void"))]
  /\ codec' = [codec EXCEPT ![CodecOf(c)] =
                 [state |-> "destroyed", destroys |-> @.destroys + 1]]
  /\ pc' = [pc EXCEPT ![c] = @ + 1]
  /\ UNCHANGED <<phase, args, aomImage, status, bitmap, submitted>>

\* Lines 112 / 167: return status.
Return(c) ==
  /\ At(c, "Return")
  /\ phase' = [phase EXCEPT ![c] = "Returned"]
  /\ UNCHANGED <<pc, args, codec, aomImage, status, bitmap, log, submitted>>

Next ==
  \E c \in Calls :
    \/ Call(c)
    \/ Validate(c)
    \/ InitCodec(c)
    \/ Decode(c)
    \/ GetFrame(c)
    \/ SizeCheck(c)
    \/ SizeCheckNullInfo(c)
    \/ Convert(c)
    \/ Destroy(c)
    \/ Return(c)

Spec == Init /\ [][Next]_vars

\* ------------------------------------------------------ concurrent calls
\* The arguments of call c when the tiles of a grid are decoded in parallel:
\* valid buffers and an established expectation; odd calls decode colour
\* tiles, even calls alpha tiles.
ConcArgs(c) ==
  [kind |-> IF c % 2 = 1 THEN "Color" ELSE "Alpha",
   compressedNull |-> FALSE, compressedSize |-> MaxSize, outputNull |-> FALSE,
   decodeInfoNull |-> FALSE, expectedWidth |-> MaxDim, expectedHeight |-> MaxDim]

\* A thread enters its entry point while other calls may be running.
CallConc(c) ==
  /\ phase[c] = "Idle"
  /\ args' = [args EXCEPT ![c] = ConcArgs(c)]
  /\ phase' = [phase EXCEPT ![c] = "Running"]
  /\ pc' = [pc EXCEPT ![c] = 1]
  /\ UNCHANGED <<codec, aomImage, status, bitmap, log, submitted>>

\* Any interleaving of the statements of the running calls.
NextConc ==
  \E c \in Calls :
    \/ CallConc(c)
    \/ Validate(c)
    \/ InitCodec(c)
    \/ Decode(c)
    \/ GetFrame(c)
    \/ SizeCheck(c)
    \/ Convert(c)
    \/ Destroy(c)
    \/ Return(c)

SpecConc == Init /\ [][NextConc]_vars

\* -------------------------------------------- the two entry points paired
\* DecodeColorImage is called with arguments a (call 1) ...
CallPairColor ==
  /\ \A c \in Calls : phase[c] = "Idle"
  /\ \E a \in ArgSpace :
        /\ a.kind = "Color"
        /\ args' = [args EXCEPT ![1] = a]
  /\ phase' = [phase EXCEPT ![1] = "Running"]
  /\ pc' = [pc EXCEPT ![1] = 1]
  /\ UNCHANGED <<codec, aomImage, status, bitmap, log, submitted>>

\* ... and, once it has returned, DecodeAlphaImage with the same arguments
\* (call 2).
CallPairAlpha ==
  /\ phase[1] = "Returned" /\ phase[2] = "Idle"
  /\ args' = [args EXCEPT ![2] = [args[1] EXCEPT !.kind = "Alpha"]]
  /\ phase' = [phase EXCEPT ![2] = "Running"]
  /\ pc' = [pc EXCEPT ![2] = 1]
  /\ UNCHANGED <<codec, aomImage, status, bitmap, log, submitted>>

NextPair ==
  \/ CallPairColor
  \/ CallPairAlpha
  \/ \E c \in Calls :
       \/ Validate(c)
       \/ InitCodec(c)
       \/ Decode(c)
       \/ GetFrame(c)
       \/ SizeCheck(c)
       \/ SizeCheckNullInfo(c)
       \/ Convert(c)
       \/ Destroy(c)
       \/ Return(c)

SpecPair == Init /\ [][NextPair]_vars

\* ------------------------------------------------- history predicates
\* The positions of the log of call c whose operation is op.
Positions(c, op) == { i \in 1..Len(log[c]) : log[c][i].op = op }

Did(c, op) == Positions(c, op) # {}

DidWith(c, op, res) == \E i \in Positions(c, op) : log[c][i].res = res

ConverterOps == {"ConvertColorImage", "ConvertAlphaImage"}

\* The operations that read the decoded frame.
FrameAccessOps == {"read_d_w", "read_d_h"} \cup ConverterOps

Converted(c) == \E op \in ConverterOps : Did(c, op)

InitSucceeded(c) == DidWith(c, "aom_codec_dec_init", "AOM_CODEC_OK")

\* The decode helper produced a frame.
FrameDecoded(c) == DidWith(c, "aom_codec_get_frame", "frame")

\* The arguments the input validation is documented to reject.
RejectedArgs(a) == a.compressedNull \/ a.compressedSize = 0 \/ a.outputNull

\* The documented size rule, on the call's expectation and decoded frame.
SizeRuleViolated(c) ==
  \/ args[c].expectedWidth # 0 /\ aomImage[c].d_w # args[c].expectedWidth
  \/ args[c].expectedHeight # 0 /\ aomImage[c].d_h # args[c].expectedHeight

SizeMismatchOf(kind) ==
  IF kind = "Color" THEN "ColorSizeMismatch" ELSE "AlphaSizeMismatch"

\* ---------------------------------------------------------------- claims

\* C1: a call whose compressed pointer is null, whose compressed size is 0 or
\* whose output pointer is null returns NullParameter and performs no decoder
\* operation at all (no init, decode, get_frame, conversion or destroy).
C1_NullParameterBeforeAnyOp ==
  \A c \in Calls :
    (phase[c] # "Idle" /\ RejectedArgs(args[c])) =>
      /\ log[c] = <<>>
      /\ codec[c] = FreshCodec
      /\ phase[c] # "Crashed"
      /\ phase[c] = "Returned" => status[c] = "NullParameter"

C1_Witness ==
  \E c \in Calls :
    /\ phase[c] = "Returned"
    /\ ~args[c].compressedNull /\ args[c].compressedSize > 0 /\ args[c].outputNull
    /\ status[c] = "NullParameter"
    /\ log[c] = <<>>

\* C2: every decoder handle whose initialisation succeeded has been released
\* by aom_codec_destroy exactly once when the call returns, whatever the exit
\* path (decode failure, no frame, size mismatch, conversion failure, success).
C2_InitialisedHandleReleasedOnce ==
  \A c \in Calls :
    (phase[c] = "Returned" /\ InitSucceeded(c)) =>
      /\ Cardinality(Positions(c, "aom_codec_destroy")) = 1
      /\ codec[c].state = "destroyed"
      /\ codec[c].destroys = 1

C2_Witness ==
  \E c \in Calls :
    /\ phase[c] = "Returned"
    /\ InitSucceeded(c)
    /\ DidWith(c, "ConvertColorImage", "DecodeFailed")
    /\ codec[c].destroys = 1

\* C3 (as stated): release occurs exactly once on every call, including the
\* calls that return NullParameter, OutOfMemory, DecodeFailed or a mismatch.
C3_ReleasedOnceOnEveryCall ==
  \A c \in Calls : phase[c] = "Returned" => codec[c].destroys = 1

\* C3 (amended): release never occurs twice; a returned call has released
\* its decoder exactly once if its initialisation succeeded, and not at all
\* if it returned NullParameter or its initialisation failed.
C3_ReleasedOnceIffInitialised ==
  \A c \in Calls :
    /\ codec[c].destroys <= 1
    /\ phase[c] = "Returned" =>
         codec[c].destroys = (IF InitSucceeded(c) THEN 1 ELSE 0)
    /\ (phase[c] = "Returned" /\ status[c] = "NullParameter" /\ ~Converted(c)) =>
         codec[c].destroys = 0

C3_Witness ==
  \E c \in Calls :
    /\ phase[c] = "Returned"
    /\ DidWith(c, "aom_codec_dec_init", "AOM_CODEC_MEM_ERROR")
    /\ status[c] = "OutOfMemory"
    /\ codec[c].destroys = 0

\* C4: after a frame was decoded, with expectation (ew, eh) and frame (w, h),
\* the size check fails iff (ew # 0 and w # ew) or (eh # 0 and h # eh); a
\* failing check makes DecodeColorImage return ColorSizeMismatch and
\* DecodeAlphaImage AlphaSizeMismatch without converting, a passing check
\* leads to the conversion.
C4_SizeCheckRule ==
  \A c \in Calls :
    (phase[c] = "Returned" /\ FrameDecoded(c) /\ ~args[c].decodeInfoNull) =>
      /\ SizeRuleViolated(c) <=> ~Converted(c)
      /\ SizeRuleViolated(c) => status[c] = SizeMismatchOf(args[c].kind)

\* Only the width differs, the height is constrained and matches.
C4_Witness ==
  \E c \in Calls :
    /\ phase[c] = "Returned" /\ FrameDecoded(c) /\ ~args[c].decodeInfoNull
    /\ args[c].kind = "Color"
    /\ args[c].expectedWidth = 1 /\ aomImage[c].d_w = 2
    /\ args[c].expectedHeight = 1 /\ aomImage[c].d_h = 1
    /\ status[c] = "ColorSizeMismatch"

\* C5: with expectedWidth = 0 and expectedHeight = 0 the size check passes
\* for every decoded size: the converter is invoked, and the status returned
\* is the converter's, never one set by the size check.
C5_ZeroExpectationPasses ==
  \A c \in Calls :
    ( /\ phase[c] = "Returned" /\ FrameDecoded(c) /\ ~args[c].decodeInfoNull
      /\ args[c].expectedWidth = 0 /\ args[c].expectedHeight = 0 ) =>
      /\ Converted(c)
      /\ DidWith(c, IF args[c].kind = "Color" THEN "ConvertColorImage"
                    ELSE "ConvertAlphaImage", status[c])
      /\ ~Did(c, "read_d_w") /\ ~Did(c, "read_d_h")

C5_Witness ==
  \E c \in Calls :
    /\ phase[c] = "Returned" /\ FrameDecoded(c) /\ ~args[c].decodeInfoNull
    /\ args[c].expectedWidth = 0 /\ args[c].expectedHeight = 0
    /\ aomImage[c].d_w = MaxDim /\ aomImage[c].d_h = 1
    /\ args[c].kind = "Alpha"
    /\ DidWith(c, "ConvertAlphaImage", "Ok")
    /\ status[c] = "Ok"

\* C6: when init and aom_codec_decode succeed but aom_codec_get_frame gives
\* no frame, the helper's status is DecodeFailed, the entry point returns
\* DecodeFailed, and neither a frame dimension is read nor a converter invoked.
C6_NoFrameIsDecodeFailed ==
  \A c \in Calls :
    DidWith(c, "aom_codec_get_frame", "nullptr") =>
      /\ status[c] = "DecodeFailed"
      /\ \A i \in 1..Len(log[c]) : log[c][i].op \notin FrameAccessOps
      /\ bitmap[c] = "untouched"
      /\ phase[c] # "Crashed"

C6_Witness ==
  \E c \in Calls :
    /\ phase[c] = "Returned"
    /\ InitSucceeded(c)
    /\ DidWith(c, "aom_codec_decode", "AOM_CODEC_OK")
    /\ DidWith(c, "aom_codec_get_frame", "nullptr")
    /\ status[c] = "DecodeFailed"

\* C7: for every native error code of aom_codec_dec_init or aom_codec_decode
\* other than AOM_CODEC_OK, the call's status is OutOfMemory iff the code is
\* AOM_CODEC_MEM_ERROR and DecodeFailed otherwise, and that is what it returns.
C7_ErrorClassification ==
  \A c \in Calls :
    \A op \in {"aom_codec_dec_init", "aom_codec_decode"} :
      \A i \in Positions(c, op) :
        log[c][i].res # "AOM_CODEC_OK" =>
          /\ status[c] \in {"OutOfMemory", "DecodeFailed"}
          /\ status[c] = "OutOfMemory" <=> log[c][i].res = "AOM_CODEC_MEM_ERROR"
          /\ i = Len(log[c]) \/ log[c][i + 1].op = "aom_codec_destroy"

C7_Witness ==
  \E c \in Calls :
    /\ phase[c] = "Returned"
    /\ InitSucceeded(c)
    /\ DidWith(c, "aom_codec_decode", "AOM_CODEC_MEM_ERROR")
    /\ status[c] = "OutOfMemory"

\* A step before the conversion failed: the arguments were rejected, init or
\* decode gave an error, no frame came out, or the size rule was violated.
FailedBeforeConvert(c) ==
  \/ RejectedArgs(args[c])
  \/ \E op \in {"aom_codec_dec_init", "aom_codec_decode"} :
       \E i \in Positions(c, op) : log[c][i].res # "AOM_CODEC_OK"
  \/ DidWith(c, "aom_codec_get_frame", "nullptr")
  \/ FrameDecoded(c) /\ ~args[c].decodeInfoNull /\ SizeRuleViolated(c)

\* C8: a call that fails in the validation, init, decode or size-check step
\* never invokes the converter and leaves the caller's bitmap untouched; the
\* converter is invoked only after a successful decode whose size check
\* passed, and the bitmap changes only through the converter.
C8_NoConversionAfterFailure ==
  \A c \in Calls :
    /\ (phase[c] # "Idle" /\ FailedBeforeConvert(c)) =>
         ~Converted(c) /\ bitmap[c] = "untouched"
    /\ Converted(c) =>
         /\ InitSucceeded(c)
         /\ DidWith(c, "aom_codec_decode", "AOM_CODEC_OK")
         /\ FrameDecoded(c)
         /\ ~aomImage[c].isNull
    /\ ~Converted(c) => bitmap[c] = "untouched"

\* Scenario B: width off by one, height equal.
C8_Witness ==
  \E c \in Calls :
    /\ phase[c] = "Returned"
    /\ args[c].kind = "Color" /\ ~args[c].decodeInfoNull
    /\ FrameDecoded(c)
    /\ aomImage[c].d_w = 2 /\ args[c].expectedWidth = 1
    /\ aomImage[c].d_h = args[c].expectedHeight
    /\ status[c] = "ColorSizeMismatch"
    /\ bitmap[c] = "untouched"

\* C9: when the decode succeeds and the size check passes, the entry point
\* returns exactly the status its converter returned (ConvertColorImage for
\* colour, ConvertAlphaImage for alpha), and the decoder is released after
\* the conversion also when the conversion failed.
C9_ConverterStatusVerbatim ==
  \A c \in Calls :
    (phase[c] = "Returned" /\ Converted(c)) =>
      LET conv == IF args[c].kind = "Color" THEN "ConvertColorImage"
                  ELSE "ConvertAlphaImage"
      IN  /\ Cardinality(Positions(c, conv)) = 1
          /\ \A i \in Positions(c, conv) :
               /\ status[c] = log[c][i].res
               /\ i < Len(log[c])
               /\ log[c][i + 1].op = "aom_codec_destroy"
          /\ codec[c].state = "destroyed"

C9_Witness ==
  \E c \in Calls :
    /\ phase[c] = "Returned"
    /\ args[c].kind = "Alpha"
    /\ DidWith(c, "ConvertAlphaImage", "OutOfMemory")
    /\ status[c] = "OutOfMemory"
    /\ codec[c].destroys = 1

\* C10: every access to the decoded frame (reading d_w or d_h, the
\* converter) happens while the codec that owns it is live and before any
\* aom_codec_destroy of that codec; nothing reads the frame after the release.
C10_FrameAccessBeforeDestroy ==
  \A c \in Calls :
    \A i \in 1..Len(log[c]) :
      log[c][i].op \in FrameAccessOps =>
        /\ log[c][i].live
        /\ log[c][i].img = "frame"
        /\ \A j \in 1..i : log[c][j].op # "aom_codec_destroy"

C10_Witness ==
  \E c \in Calls :
    /\ phase[c] = "Returned"
    /\ Did(c, "read_d_w") /\ Did(c, "read_d_h") /\ Converted(c)
    /\ codec[c].state = "destroyed"
    /\ log[c][Len(log[c])].op = "aom_codec_destroy"

\* C11: when aom_codec_dec_init fails the entry point returns at once with
\* the classified status: the failed init is the only operation of the call,
\* nothing is decoded, retrieved or converted, and aom_codec_destroy is not
\* called on the codec that failed to initialise.
C11_InitFailureReturnsAtOnce ==
  \A c \in Calls :
    \A i \in Positions(c, "aom_codec_dec_init") :
      log[c][i].res # "AOM_CODEC_OK" =>
        /\ phase[c] = "Returned"
        /\ log[c] = <<log[c][i]>>
        /\ submitted[c] = <<>>
        /\ codec[c] = FreshCodec
        /\ bitmap[c] = "untouched"
        /\ status[c] = IF log[c][i].res = "AOM_CODEC_MEM_ERROR"
                       THEN "OutOfMemory" ELSE "DecodeFailed"

C11_Witness ==
  \E c \in Calls :
    /\ phase[c] = "Returned"
    /\ log[c] # <<>>
    /\ log[c][1].op = "aom_codec_dec_init"
    /\ log[c][1].res = "AOM_CODEC_ERROR"
    /\ status[c] = "DecodeFailed"
    /\ codec[c].destroys = 0

\* C12: within one call the decoder is initialised at most once, the
\* compressed buffer is submitted to aom_codec_decode at most once and then
\* with its full length, and at most one frame is retrieved; a failed step is
\* never repeated.
C12_EachStepAtMostOnce ==
  \A c \in Calls :
    /\ \A op \in {"aom_codec_dec_init", "aom_codec_decode", "aom_codec_get_frame"} :
         Cardinality(Positions(c, op)) <= 1
    /\ Len(submitted[c]) = Cardinality(Positions(c, "aom_codec_decode"))
    /\ \A i \in 1..Len(submitted[c]) : submitted[c][i] = args[c].compressedSize
    /\ \A i \in 1..Len(log[c]) :
         ( /\ log[c][i].op \in {"aom_codec_dec_init", "aom_codec_decode"}
           /\ log[c][i].res # "AOM_CODEC_OK" ) =>
           \A j \in (i + 1)..Len(log[c]) : log[c][j].op = "aom_codec_destroy"

C12_Witness ==
  \E c \in Calls :
    /\ phase[c] = "Returned"
    /\ DidWith(c, "aom_codec_decode", "AOM_CODEC_MEM_ERROR")
    /\ submitted[c] = <<args[c].compressedSize>>
    /\ Cardinality(Positions(c, "aom_codec_decode")) = 1
    /\ ~Did(c, "aom_codec_get_frame")
    /\ status[c] = "OutOfMemory"

\* The result of the one operation op in the log of call c.
ResOf(c, op) == log[c][CHOOSE i \in Positions(c, op) : TRUE].res

NativeClass(error) ==
  IF error = "AOM_CODEC_MEM_ERROR" THEN "OutOfMemory" ELSE "DecodeFailed"

\* The status a call gives when run alone, from its own arguments and the
\* results its own operations had (decodeInfo non-null).
AloneStatus(c) ==
  IF RejectedArgs(args[c]) THEN "NullParameter"
  ELSE IF ~InitSucceeded(c) THEN NativeClass(ResOf(c, "aom_codec_dec_init"))
  ELSE IF ~DidWith(c, "aom_codec_decode", "AOM_CODEC_OK")
       THEN NativeClass(ResOf(c, "aom_codec_decode"))
  ELSE IF ~FrameDecoded(c) THEN "DecodeFailed"
  ELSE IF SizeRuleViolated(c) THEN SizeMismatchOf(args[c].kind)
  ELSE ResOf(c, IF args[c].kind = "Color" THEN "ConvertColorImage"
                ELSE "ConvertAlphaImage")

\* C13: when calls run concurrently in any interleaving, every operation of
\* a call is applied to the codec that call created (and to its own frame),
\* on a codec no other call has destroyed; a codec is initialised and
\* released by its own call only; and each call returns the status it gives
\* when run alone with the same arguments and decoder results.
C13_CallsShareNothing ==
  \A c \in Calls :
    /\ \A i \in 1..Len(log[c]) :
         /\ log[c][i].h = c
         /\ log[c][i].live <=> log[c][i].op # "aom_codec_dec_init"
    /\ codec[c].destroys = Cardinality(Positions(c, "aom_codec_destroy"))
    /\ codec[c].state =
         IF Did(c, "aom_codec_destroy") THEN "destroyed"
         ELSE IF InitSucceeded(c) THEN "live" ELSE "uninit"
    /\ phase[c] = "Returned" => status[c] = AloneStatus(c)

\* One call holds a live codec and a decoded frame while another running call
\* has already decoded and destroyed its own codec.
C13_Witness ==
  \E c \in Calls : \E d \in Calls \ {c} :
    /\ phase[c] = "Running" /\ FrameDecoded(c) /\ codec[c].state = "live"
    /\ ~aomImage[c].isNull
    /\ phase[d] = "Running" /\ codec[d].state = "destroyed"
    /\ Did(d, "aom_codec_get_frame")

\* C14: a call that passes the input validation ends by returning a
\* DecoderStatus without reading through a null pointer, also when the
\* decodeInfo pointer is null: the size check reads decodeInfo only when it is
\* non-null.
C14_NoNullDereference ==
  \A c \in Calls :
    ~RejectedArgs(args[c]) =>
      /\ ~Did(c, "null_deref")
      /\ phase[c] # "Crashed"

\* The name of an operation with the two converters identified.
NormOp(op) == IF op \in ConverterOps THEN "Convert" ELSE op

MinLen(c, d) == IF Len(log[c]) <= Len(log[d]) THEN Len(log[c]) ELSE Len(log[d])

\* The first n operations of calls c and d had the same results, the frames
\* they retrieved (if any) have the same size, and none of them read through
\* a null decodeInfo (after which there is no expectation to compare).
SameOutcomes(c, d, n) ==
  /\ \A j \in 1..n :
       /\ log[c][j].res = log[d][j].res
       /\ log[c][j].op # "null_deref" /\ log[d][j].op # "null_deref"
  /\ (\E j \in 1..n : log[c][j].op = "aom_codec_get_frame") =>
       aomImage[c] = aomImage[d]

\* Calls c and d were given the same arguments, c to DecodeColorImage and d
\* to DecodeAlphaImage.
Paired(c, d) ==
  /\ phase[c] # "Idle" /\ phase[d] # "Idle"
  /\ args[c].kind = "Color"
  /\ args[d] = [args[c] EXCEPT !.kind = "Alpha"]

\* C15: DecodeColorImage and DecodeAlphaImage are the same pipeline: given
\* the same arguments and, step by step, the same decoder, frame and
\* converter results, they perform the same operations in the same order and
\* return the same status, except that the converter is ConvertColorImage
\* resp. ConvertAlphaImage and the size check's status is ColorSizeMismatch
\* resp. AlphaSizeMismatch.
C15_SamePipeline ==
  \A c \in Calls : \A d \in Calls :
    Paired(c, d) =>
      /\ \A i \in 1..MinLen(c, d) :
           SameOutcomes(c, d, i - 1) =>
             /\ NormOp(log[c][i].op) = NormOp(log[d][i].op)
             /\ log[c][i].live = log[d][i].live
             /\ log[c][i].img = log[d][i].img
      /\ \A i \in 1..Len(log[c]) : log[c][i].op # "ConvertAlphaImage"
      /\ \A i \in 1..Len(log[d]) : log[d][i].op # "ConvertColorImage"
      /\ SameOutcomes(c, d, MinLen(c, d)) =>
           /\ phase[c] = "Returned" => Len(log[d]) <= Len(log[c])
           /\ phase[d] = "Returned" => Len(log[c]) <= Len(log[d])
           /\ (phase[c] = "Returned" /\ phase[d] = "Returned") =>
                /\ submitted[c] = submitted[d]
                /\ bitmap[c] = bitmap[d] \/ Converted(c)
                /\ \/ status[c] = status[d]
                   \/ /\ status[c] = "ColorSizeMismatch"
                      /\ status[d] = "AlphaSizeMismatch"
                      /\ ~Converted(c) /\ ~Converted(d)

\* Both entry points, same arguments and results, end in their own mismatch.
C15_Witness ==
  \E c \in Calls : \E d \in Calls :
    /\ Paired(c, d)
    /\ phase[c] = "Returned" /\ phase[d] = "Returned"
    /\ Len(log[c]) = Len(log[d])
    /\ SameOutcomes(c, d, Len(log[c]))
    /\ FrameDecoded(c)
    /\ status[c] = "ColorSizeMismatch"
    /\ status[d] = "AlphaSizeMismatch"

====
